---- MODULE Spec2Model ----
(***************************************************************************)
(* A model of the two processors of packages/ai-evaluator/src:             *)
(*   tts_processor.py       TTSProcessor       (text in, audio out)        *)
(*   whisperx_processor.py  WhisperXProcessor  (audio in, text out)        *)
(*                                                                         *)
(* An object is the record of the attributes its constructor has set, so   *)
(* that reading an attribute that was never set raises AttributeError as   *)
(* it does in Python.  A handler is one action; what it did to the outside *)
(* world, in order, is kept in call.trace.  An exception is a value: every *)
(* private method returns a record with the fields                         *)
(*   exc   "none", or the name of the exception that left the method       *)
(*   val   the value returned when exc = "none"                            *)
(*   files, trace   the temp directory and the effects after the method    *)
(***************************************************************************)
EXTENDS Integers, Sequences, FiniteSets, TLC

VARIABLES
    engines,    \* the machine: binary name -> what its availability probe does
    tts,        \* the TTSProcessor object: attribute name -> value
    ttsStatus,  \* "none" | "ok" | the exception TTSProcessor(...) raised
    probed,     \* the binaries probed by the constructor, in order
    stt,        \* the WhisperXProcessor object: attribute name -> value
    sttStatus,  \* "none" | "ok"
    files,      \* the temp directory: path -> content
    call        \* the last call: op, args, exc, result, trace, created

vars == <<engines, tts, ttsStatus, probed, stt, sttStatus, files, call>>

----------------------------------------------------------------------------
(* Bounds of the model *)

\* temp files that may be left behind before no further call is explored
MaxLeaked == 2

----------------------------------------------------------------------------
(* Python values *)

NoAttrs == [a \in {} |-> 0]

HasAttr(obj, a) == a \in DOMAIN obj

\* obj.a = v
SetAttr(obj, a, v) == [x \in DOMAIN obj \cup {a} |-> IF x = a THEN v ELSE obj[x]]

NoCall == [op |-> "none"]

\* no call is under way: the last result, if any, was taken by the caller
Idle == ~HasAttr(call, "result")

\* the caller takes the result of the call: the call is over
ResultTaken ==
    /\ ~Idle
    /\ call' = NoCall
    /\ UNCHANGED <<engines, tts, ttsStatus, probed, stt, sttStatus, files>>

(* the temp directory *)
Exists(fs, p) == p \in DOMAIN fs

WriteFile(fs, p, d) == [x \in DOMAIN fs \cup {p} |-> IF x = p THEN d ELSE fs[x]]

Unlink(fs, p) == [x \in DOMAIN fs \ {p} |-> fs[x]]

\* tempfile.NamedTemporaryFile picks a name no existing file has
RECURSIVE FreshId(_, _)
FreshId(fs, n) == IF \E p \in DOMAIN fs : p.id = n THEN FreshId(fs, n + 1) ELSE n

\* NamedTemporaryFile(suffix=..., delete=False): an empty file, kept on close
MkTemp(fs, suffix) == [id |-> FreshId(fs, 1), suffix |-> suffix]

----------------------------------------------------------------------------
(* TTSProcessor: construction *)

Binaries == {"piper", "espeak", "say"}

\* what subprocess.run([binary, flag], timeout=5) can do
ProbeOutcomes == {"ok", "nonzero", "timeout", "notfound"}

\* the exception subprocess.run raises, if any
RunRaises(o) ==
    CASE o = "timeout"  -> "TimeoutExpired"
      [] o = "notfound" -> "FileNotFoundError"
      [] OTHER          -> "none"

\* result.returncode
ReturnCode(o) == IF o = "ok" THEN 0 ELSE 1

\* (mutant) an except clause that lets the RuntimeError of a non-zero exit through
ProbeCaughtNoRuntimeError == {"TimeoutExpired", "FileNotFoundError"}

\* the except clause of the three _initialize_* methods
ProbeCaught == {"TimeoutExpired", "FileNotFoundError", "RuntimeError"}

\* the try body of an _initialize_* method: the exception it ends with
ProbeTry(bin) ==
    IF RunRaises(engines[bin]) /= "none" THEN RunRaises(engines[bin])
    ELSE IF ReturnCode(engines[bin]) = 0 THEN "none"
    ELSE "RuntimeError"

_initialize_system(self, pr) ==
    LET e == ProbeTry("say") IN
    IF e = "none"
    THEN [self |-> SetAttr(self, "system_available", TRUE),
          probed |-> Append(pr, "say"), exc |-> "none"]
    ELSE IF e \in ProbeCaught
    THEN [self |-> self, probed |-> Append(pr, "say"), exc |-> "RuntimeError"]
    ELSE [self |-> self, probed |-> Append(pr, "say"), exc |-> e]

_initialize_espeak(self, pr) ==
    LET e == ProbeTry("espeak") IN
    IF e = "none"
    THEN [self |-> SetAttr(self, "espeak_available", TRUE),
          probed |-> Append(pr, "espeak"), exc |-> "none"]
    ELSE IF e \in ProbeCaught
    THEN _initialize_system(SetAttr(self, "provider", "system"), Append(pr, "espeak"))
    ELSE [self |-> self, probed |-> Append(pr, "espeak"), exc |-> e]

\* (mutant) a fallback from piper straight to the system engine
_initialize_piper_skips_espeak(self, pr) ==
    LET e == ProbeTry("piper") IN
    IF e = "none"
    THEN [self |-> SetAttr(self, "piper_available", TRUE),
          probed |-> Append(pr, "piper"), exc |-> "none"]
    ELSE _initialize_system(SetAttr(self, "provider", "system"), Append(pr, "piper"))

_initialize_piper(self, pr) ==
    LET e == ProbeTry("piper") IN
    IF e = "none"
    THEN [self |-> SetAttr(self, "piper_available", TRUE),
          probed |-> Append(pr, "piper"), exc |-> "none"]
    ELSE IF e \in ProbeCaught
    THEN _initialize_espeak(SetAttr(self, "provider", "espeak"), Append(pr, "piper"))
    ELSE [self |-> self, probed |-> Append(pr, "piper"), exc |-> e]

_initialize_provider(self) ==
    IF self.provider = "piper" THEN _initialize_piper(self, <<>>)
    ELSE IF self.provider = "espeak" THEN _initialize_espeak(self, <<>>)
    ELSE IF self.provider = "system" THEN _initialize_system(self, <<>>)
    ELSE [self |-> self, probed |-> <<>>, exc |-> "ValueError"]

\* the attributes set before _initialize_provider runs
TTSAttrs(provider, voice, device) ==
    [provider |-> provider, voice |-> voice, device |-> device,
     sample_rate |-> 22050, channels |-> 1, bit_depth |-> 16]

RequestedProviders == {"piper", "espeak", "system", "festival"}
Voices == {"swedish_female", "Alva"}

\* TTSProcessor(provider, voice): __init__
TTSInit(provider, voice) ==
    /\ ttsStatus = "none"
    /\ LET r == _initialize_provider(TTSAttrs(provider, voice, "auto")) IN
       /\ tts' = r.self
       /\ probed' = r.probed
       /\ ttsStatus' = IF r.exc = "none" THEN "ok" ELSE r.exc
    /\ call' = [op |-> "__init__", provider |-> provider, voice |-> voice]
    /\ UNCHANGED <<engines, stt, sttStatus, files>>

----------------------------------------------------------------------------
(* Python str, as the sequence of its characters *)

Whitespace == {" ", "\t", "\n"}

RECURSIVE LStrip(_)
LStrip(s) == IF s /= <<>> /\ Head(s) \in Whitespace THEN LStrip(Tail(s)) ELSE s

RECURSIVE RStrip(_)
RStrip(s) ==
    IF s /= <<>> /\ s[Len(s)] \in Whitespace THEN RStrip(SubSeq(s, 1, Len(s) - 1)) ELSE s

\* s.strip()
Strip(s) == RStrip(LStrip(s))

\* s.endswith(suf)
EndsWith(s, suf) ==
    Len(suf) <= Len(s) /\ SubSeq(s, Len(s) - Len(suf) + 1, Len(s)) = suf

\* s.replace(old, new): the non-overlapping occurrences, left to right
RECURSIVE Replace(_, _, _)
Replace(s, old, new) ==
    IF Len(s) < Len(old) THEN s
    ELSE IF SubSeq(s, 1, Len(old)) = old
    THEN new \o Replace(SubSeq(s, Len(old) + 1, Len(s)), old, new)
    ELSE <<Head(s)>> \o Replace(Tail(s), old, new)

\* len(s.split()): the maximal runs of non-whitespace characters, counted by
\* their last characters
WordCount(s) ==
    Cardinality({i \in 1..Len(s) :
                    s[i] \notin Whitespace /\ (i = Len(s) \/ s[i + 1] \in Whitespace)})

\* old in s
Contains(s, old) ==
    \E i \in 1..(Len(s) - Len(old) + 1) : \A k \in 1..Len(old) : s[i + k - 1] = old[k]

----------------------------------------------------------------------------
(* TTSProcessor._prepare_text_for_swedish *)

\* the replacements dict, in insertion order
Abbreviations == <<
    [abbr |-> <<"k", "r">>, full |-> <<"k", "r", "o", "n", "o", "r">>],
    [abbr |-> <<"s", "t">>, full |-> <<"s", "t", "y", "c", "k", "e", "n">>],
    [abbr |-> <<"o", "s", "v">>,
     full |-> <<"o", "c", "h", " ", "s", "å", " ", "v", "i", "d", "a", "r", "e">>],
    [abbr |-> <<"t", ".", "e", "x">>,
     full |-> <<"t", "i", "l", "l", " ", "e", "x", "e", "m", "p", "e", "l">>],
    [abbr |-> <<"c", "a">>, full |-> <<"c", "i", "r", "k", "a">>] >>

\* one turn of the loop over replacements.items()
ReplaceAbbr(text, r) ==
    Replace(Replace(text, <<" ">> \o r.abbr \o <<" ">>, <<" ">> \o r.full \o <<" ">>),
            <<" ">> \o r.abbr \o <<".">>, <<" ">> \o r.full \o <<".">>)

RECURSIVE ReplaceAll(_, _)
ReplaceAll(text, i) ==
    IF i > Len(Abbreviations) THEN text
    ELSE ReplaceAll(ReplaceAbbr(text, Abbreviations[i]), i + 1)

_prepare_text_for_swedish(text) ==
    LET punctuated ==
            IF \E c \in {".", "!", "?"} : EndsWith(text, <<c>>)
            THEN text ELSE text \o <<".">>
    IN  ReplaceAll(punctuated, 1)

----------------------------------------------------------------------------
(* TTSProcessor: synthesis *)

\* f".{output_format}"
Suffix(output_format) ==
    CASE output_format = "wav" -> ".wav"
      [] output_format = "mp3" -> ".mp3"
      [] OTHER                 -> ".ogg"

\* b""
EmptyBytes == ""

\* what a run of the engine on the temp file can do: write the audio and
\* exit 0, exit non-zero, run into the 30 s timeout, or exit 0 with no file
\* at the output path
EngineOutcomes == {"ok", "nonzero", "timeout", "nofile"}

\* what the ffmpeg run can do: whether subprocess.run returns, times out or
\* finds no binary, and whether a file is at wav_path afterwards
FfmpegOutcomes ==
    {"ok", "nonzero_nofile", "nonzero_file", "timeout_nofile", "timeout_file", "notfound"}

Ev(ev, arg) == [ev |-> ev, arg |-> arg]

\* the temp directory after subprocess.run of an engine writing to path p
EngineFiles(fs, p, o, data) ==
    CASE o = "ok"     -> WriteFile(fs, p, data)
      [] o = "nofile" -> Unlink(fs, p)
      [] OTHER        -> fs

\* the exception subprocess.run of an engine raises, if any
EngineRaises(o) == IF o = "timeout" THEN "TimeoutExpired" ELSE "none"

\* process.returncode
EngineReturnCode(o) == IF o = "nonzero" THEN 1 ELSE 0

\* with open(p, 'rb') as f: audio_data = f.read(), ending the method's body
ReadFile(fs, tr, p) ==
    IF Exists(fs, p)
    THEN [exc |-> "none", val |-> fs[p], files |-> fs, trace |-> tr]
    ELSE [exc |-> "FileNotFoundError", val |-> EmptyBytes, files |-> fs, trace |-> tr]

Raise(e, fs, tr) == [exc |-> e, val |-> EmptyBytes, files |-> fs, trace |-> tr]

\* finally: if os.path.exists(temp_path): os.unlink(temp_path)
UnlinkIfExists(r, p) ==
    IF Exists(r.files, p)
    THEN [r EXCEPT !.files = Unlink(r.files, p),
                   !.trace = Append(r.trace, Ev("unlink", p))]
    ELSE r

\* the try body shared by _synthesize_with_piper and _synthesize_with_espeak,
\* from the return of subprocess.run on
RunAndRead(fs, tr, p, o) ==
    IF EngineRaises(o) /= "none" THEN Raise(EngineRaises(o), fs, tr)
    ELSE IF EngineReturnCode(o) /= 0 THEN Raise("RuntimeError", fs, tr)
    ELSE ReadFile(fs, tr, p)

\* the method from the creation of temp_path on
SynthesizeInTemp(fs, temp_path, bin, o, data) ==
    UnlinkIfExists(
        RunAndRead(EngineFiles(WriteFile(fs, temp_path, EmptyBytes), temp_path, o, data),
                   <<Ev("mktemp", temp_path), Ev("run", bin)>>, temp_path, o),
        temp_path)

_synthesize_with_piper(fs, text, output_format, o) ==
    SynthesizeInTemp(fs, MkTemp(fs, Suffix(output_format)), "piper", o, "piper_audio")

_synthesize_with_espeak(fs, text, output_format, o) ==
    SynthesizeInTemp(fs, MkTemp(fs, Suffix(output_format)), "espeak", o, "espeak_audio")

\* temp_path.replace('.aiff', '.wav')
WavPath(temp_path) ==
    [id |-> temp_path.id,
     suffix |-> IF temp_path.suffix = ".aiff" THEN ".wav" ELSE temp_path.suffix]

\* whether subprocess.run(['ffmpeg', '-i', temp_path, '-y', wav_path]) leaves
\* a file at wav_path
FfmpegWrites(fs, temp_path, fo) ==
    fo \in {"ok", "nonzero_file", "timeout_file"} /\ Exists(fs, temp_path)

FfmpegRaises(fo) ==
    CASE fo \in {"timeout_nofile", "timeout_file"} -> "TimeoutExpired"
      [] fo = "notfound"                           -> "FileNotFoundError"
      [] OTHER                                     -> "none"

\* lines 297-304, after ffmpeg ran: read and unlink wav_path; on any
\* exception of the try read temp_path instead
AfterFfmpeg(fs, tr, temp_path, wav_path, fo) ==
    IF FfmpegRaises(fo) = "none" /\ Exists(fs, wav_path)
    THEN [exc |-> "none", val |-> fs[wav_path], files |-> Unlink(fs, wav_path),
          trace |-> Append(tr, Ev("unlink", wav_path))]
    ELSE ReadFile(fs, tr, temp_path)

\* the conversion of lines 288-304
ConvertToWav(fs, tr, temp_path, fo) ==
    IF FfmpegWrites(fs, temp_path, fo)
    THEN AfterFfmpeg(
             WriteFile(fs, WavPath(temp_path),
                       IF fo = "ok" THEN "ffmpeg_wav" ELSE "ffmpeg_partial"),
             tr \o <<Ev("run", "ffmpeg"), Ev("create", WavPath(temp_path))>>,
             temp_path, WavPath(temp_path), fo)
    ELSE AfterFfmpeg(fs, Append(tr, Ev("run", "ffmpeg")), temp_path, WavPath(temp_path), fo)

\* the try body of _synthesize_with_system, from the return of say on
SystemTry(fs, tr, temp_path, output_format, o, fo) ==
    IF EngineRaises(o) /= "none" THEN Raise(EngineRaises(o), fs, tr)
    ELSE IF EngineReturnCode(o) /= 0 THEN Raise("RuntimeError", fs, tr)
    ELSE IF output_format = "wav" THEN ConvertToWav(fs, tr, temp_path, fo)
    ELSE ReadFile(fs, tr, temp_path)

\* the method from the creation of temp_path on
SystemInTemp(fs, temp_path, output_format, o, fo) ==
    UnlinkIfExists(
        SystemTry(EngineFiles(WriteFile(fs, temp_path, EmptyBytes), temp_path, o, "say_aiff"),
                  <<Ev("mktemp", temp_path), Ev("run", "say")>>,
                  temp_path, output_format, o, fo),
        temp_path)

_synthesize_with_system(fs, text, output_format, o, fo) ==
    SystemInTemp(fs, MkTemp(fs, ".aiff"), output_format, o, fo)

\* the result dict of a successful synthesize
ResultDict(self, audio_data, cleaned_text, output_format, word_count) ==
    [audio_data |-> audio_data,
     text |-> cleaned_text,
     duration |-> "elapsed",
     estimated_audio_duration |-> <<word_count * 10, 45>>,
     sample_rate |-> self.sample_rate,
     channels |-> self.channels,
     format |-> output_format,
     provider |-> self.provider,
     voice |-> self.voice,
     text_length |-> Len(cleaned_text),
     word_count |-> word_count]

SynthesizeResult(self, audio_data, cleaned_text, output_format) ==
    ResultDict(self, audio_data, cleaned_text, output_format, WordCount(cleaned_text))

\* (mutant) an error result that reports the stripped text
SynthesizeErrorStripped(self, text, e) ==
    [audio_data |-> EmptyBytes,
     text |-> Strip(text),
     duration |-> "elapsed",
     error |-> e,
     provider |-> self.provider]

\* the result dict of the except clause of synthesize
SynthesizeError(self, text, e) ==
    [audio_data |-> EmptyBytes,
     text |-> text,
     duration |-> "elapsed",
     error |-> e,
     provider |-> self.provider]

\* (mutant) a dispatch that tries espeak after piper failed
SynthesizeDispatchFallsBack(self, fs, cleaned_text, output_format, o, fo) ==
    IF self.provider = "piper" /\ o /= "ok"
    THEN [_synthesize_with_espeak(fs, cleaned_text, output_format, "ok") EXCEPT
             !.trace = _synthesize_with_piper(fs, cleaned_text, output_format, o).trace
                       \o @]
    ELSE IF self.provider = "piper"
    THEN _synthesize_with_piper(fs, cleaned_text, output_format, o)
    ELSE IF self.provider = "espeak"
    THEN _synthesize_with_espeak(fs, cleaned_text, output_format, o)
    ELSE _synthesize_with_system(fs, cleaned_text, output_format, o, fo)

\* the engine call of lines 128-135
SynthesizeDispatch(self, fs, cleaned_text, output_format, o, fo) ==
    IF self.provider = "piper" THEN _synthesize_with_piper(fs, cleaned_text, output_format, o)
    ELSE IF self.provider = "espeak"
    THEN _synthesize_with_espeak(fs, cleaned_text, output_format, o)
    ELSE IF self.provider = "system"
    THEN _synthesize_with_system(fs, cleaned_text, output_format, o, fo)
    ELSE Raise("ValueError", fs, <<>>)

\* what a handler hands back: the dict it returns, or the exception it raises
Return(val, fs, tr) == [exc |-> "none", val |-> val, files |-> fs, trace |-> tr]

\* lines 137-169: the result built from what the engine method did
SynthesizeReturn(self, text, cleaned_text, output_format, r) ==
    IF r.exc /= "none"
    THEN Return(SynthesizeError(self, text, r.exc), r.files, r.trace)
    ELSE Return(SynthesizeResult(self, r.val, cleaned_text, output_format),
                r.files, r.trace)

Formats == {"wav", "mp3"}

Texts == {
    <<>>,
    <<" ", "\n">>,
    <<"h", "e", "j", "!">>,
    <<" ", "5", " ", "k", "r", " ">>,
    <<"2", " ", "s", "t", " ", "c", "a", " ", "5", " ", "k", "r", "?", "\n">> }

\* lines 127-169, cleaned_text being the prepared text
SynthesizePrepared(self, fs, text, cleaned_text, output_format, o, fo) ==
    SynthesizeReturn(self, text, cleaned_text, output_format,
                     SynthesizeDispatch(self, fs, cleaned_text, output_format, o, fo))

\* (mutant) a synthesize that rejects only the empty string, so that a text of
\* whitespace reaches the engine
synthesize_accepts_whitespace(self, fs, text, output_format, o, fo) ==
    IF text = <<>>
    THEN Return(SynthesizeError(self, text, "Text is empty"), fs, <<>>)
    ELSE SynthesizePrepared(self, fs, text, _prepare_text_for_swedish(Strip(text)),
                            output_format, o, fo)

\* synthesize(text, output_format): what it returns or raises, and its effects.
\* The error field is str(e): the message of the ValueError of line 122, and
\* for an exception of an engine method the name of its class.
synthesize(self, fs, text, output_format, o, fo) ==
    IF text = <<>> \/ Strip(text) = <<>>
    THEN Return(SynthesizeError(self, text, "Text is empty"), fs, <<>>)
    ELSE SynthesizePrepared(self, fs, text, _prepare_text_for_swedish(Strip(text)),
                            output_format, o, fo)

\* the state after a call c that ended as r
Returns(c, r) ==
    /\ files' = r.files
    /\ call' = c @@ [exc |-> r.exc, result |-> r.val, trace |-> r.trace]

\* the files a trace created
Created(tr) == {tr[i].arg : i \in {j \in 1..Len(tr) : tr[j].ev \in {"mktemp", "create"}}}

\* the binaries a trace ran, in order
RECURSIVE Ran(_)
Ran(tr) ==
    IF tr = <<>> THEN <<>>
    ELSE IF Head(tr).ev = "run" THEN <<Head(tr).arg>> \o Ran(Tail(tr))
    ELSE Ran(Tail(tr))

\* the outcomes to draw for the processes a call runs: no engine runs for a
\* blank text, and ffmpeg runs only after say exited 0 with "wav" requested
EnginesRun(text) == IF Strip(text) = <<>> THEN {"ok"} ELSE EngineOutcomes

FfmpegRun(output_format, o) ==
    IF tts.provider = "system" /\ output_format = "wav" /\ o \in {"ok", "nofile"}
    THEN FfmpegOutcomes ELSE {"ok"}

Synthesize(text, output_format) ==
    /\ ttsStatus = "ok"
    /\ Idle
    /\ Cardinality(DOMAIN files) < MaxLeaked
    /\ \E o \in EnginesRun(text) : \E fo \in FfmpegRun(output_format, o) :
         Returns([op |-> "synthesize", text |-> text,
                  output_format |-> output_format, engine |-> o, ffmpeg |-> fo],
                 synthesize(tts, files, text, output_format, o, fo))
    /\ UNCHANGED <<engines, tts, ttsStatus, probed, stt, sttStatus>>

\* get_status()
GetStatus ==
    /\ ttsStatus = "ok"
    /\ Idle
    /\ call' = [op |-> "get_status", exc |-> "none", trace |-> <<>>,
                result |-> [available |-> TRUE,
                            provider |-> tts.provider,
                            voice |-> tts.voice,
                            sample_rate |-> tts.sample_rate,
                            channels |-> tts.channels,
                            supported_formats |-> <<"wav", "mp3">>,
                            version |-> "1.0.0"]]
    /\ UNCHANGED <<engines, tts, ttsStatus, probed, stt, sttStatus, files>>

----------------------------------------------------------------------------
(* Python float, as the exact ratio <<numerator, denominator>> *)

RLess(a, b) == a[1] * b[2] < b[1] * a[2]

REq(a, b) == a[1] * b[2] = b[1] * a[2]

RLeq(a, b) == ~RLess(b, a)

RMul(a, b) == <<a[1] * b[1], a[2] * b[2]>>

RAdd(a, b) == <<a[1] * b[2] + b[1] * a[2], a[2] * b[2]>>

\* max(a, b) and min(a, b): the first argument unless the second is beyond it
RMax(a, b) == IF RLess(a, b) THEN b ELSE a

RMin(a, b) == IF RLess(b, a) THEN b ELSE a

----------------------------------------------------------------------------
(* WhisperXProcessor: construction *)

\* the keys of self.supported_languages, in insertion order
SupportedLanguageKeys == <<"sv", "en", "da", "no", "fi", "de", "fr", "es", "it", "nl">>

\* the attributes __init__ sets; min_duration is 0.5 s
WhisperXAttrs(model_size, language, device) ==
    [model_size |-> model_size,
     default_language |-> language,
     supported_languages |-> SupportedLanguageKeys,
     device |-> device,
     model |-> "WhisperModel",
     target_sample_rate |-> 16000,
     min_duration |-> <<5, 10>>,
     max_duration |-> <<120, 1>>]

DefaultLanguages == {"sv", "en", "xx"}

\* WhisperXProcessor(language=...): __init__
STTInit(language) ==
    /\ sttStatus = "none"
    /\ stt' = WhisperXAttrs("base", language, "cpu")
    /\ sttStatus' = "ok"
    /\ call' = [op |-> "__init__", language |-> language]
    /\ UNCHANGED <<engines, tts, ttsStatus, probed, files>>

----------------------------------------------------------------------------
(* WhisperXProcessor: audio preprocessing *)

\* An audio buffer is its size in bytes and what librosa.load makes of it: the
\* number of samples at 16 kHz, or -1 when it cannot be decoded.
AudioBuffers == {
    [size |-> 0,       samples |-> -1],
    [size |-> 1023,    samples |-> 500],
    [size |-> 1024,    samples |-> -1],
    [size |-> 1024,    samples |-> 0],
    [size |-> 9000,    samples |-> 4000],
    [size |-> 64000,   samples |-> 32000],
    [size |-> 330000,  samples |-> 160001],
    [size |-> 3900000, samples |-> 1920001] }

\* int(x) of a non-negative ratio
IntOf(x) == x[1] \div x[2]

\* max_duration or self.max_duration; None is <<0, 1>>, which is falsy as well
OrDefault(max_duration, default) == IF max_duration[1] = 0 THEN default ELSE max_duration

\* _normalize_audio: np.max of an empty array raises ValueError; the length
\* of the array is kept
_normalize_audio(n) ==
    IF n = 0 THEN [exc |-> "ValueError", val |-> 0] ELSE [exc |-> "none", val |-> n]

\* (mutant) a duration check that only warns
TruncatedNever(self, n, max_dur) == n

\* lines 309-317: the length of the array after the duration check
Truncated(self, n, max_dur) ==
    IF RLess(<<n, self.target_sample_rate>>, self.min_duration) THEN n
    ELSE IF RLess(max_dur, <<n, self.target_sample_rate>>)
    THEN (IF IntOf(RMul(max_dur, <<self.target_sample_rate, 1>>)) < n
          THEN IntOf(RMul(max_dur, <<self.target_sample_rate, 1>>)) ELSE n)
    ELSE n

\* _preprocess_audio(audio_path, max_duration): the number of samples returned
_preprocess_audio(self, buf, max_duration) ==
    IF buf.samples < 0 THEN [exc |-> "LibrosaError", val |-> 0]
    ELSE _normalize_audio(
             Truncated(self, buf.samples, OrDefault(max_duration, self.max_duration)))

----------------------------------------------------------------------------
(* WhisperXProcessor.detect_language *)

\* x in s, for a list s
InList(x, s) == \E i \in 1..Len(s) : s[i] = x

\* [lang for lang in supported_languages if lang in self.supported_languages]
RECURSIVE FilterSupported(_, _)
FilterSupported(langs, keys) ==
    IF langs = <<>> THEN <<>>
    ELSE (IF InList(Head(langs), keys) THEN <<Head(langs)>> ELSE <<>>)
         \o FilterSupported(Tail(langs), keys)

\* lines 101-105; a caller's None is the empty list, which is falsy as well
DetectionLanguages(self, supported_languages) ==
    IF supported_languages /= <<>>
    THEN FilterSupported(supported_languages, self.supported_languages)
    ELSE self.supported_languages

\* not audio_buffer or len(audio_buffer) < 1024
BufferInvalid(buf) == buf.size = 0 \/ buf.size < 1024

\* lines 135-139: the detected language checked against the considered ones
Validated(self, lang, prob, detection_languages) ==
    IF ~InList(lang, detection_languages)
    THEN [language |-> self.default_language, probability |-> <<5, 10>>]
    ELSE [language |-> lang, probability |-> prob]

\* lines 131-139: the language and probability taken from the model's info
DetectedLanguage(self, info, detection_languages) ==
    Validated(self,
              IF HasAttr(info, "language") THEN info.language ELSE self.default_language,
              IF HasAttr(info, "language_probability")
              THEN info.language_probability ELSE <<5, 10>>,
              detection_languages)

\* max(0.1, (1.0 - language_probability) / (len(detection_languages) - 1))
OtherConfidence(language_probability, n) ==
    RMax(<<1, 10>>,
         <<language_probability[2] - language_probability[1],
           language_probability[2] * (n - 1)>>)

\* the loop of lines 143-149 from index i on, all_languages being acc so far;
\* the division raises when the list has one language and it is not the
\* detected one
RECURSIVE AllLanguages(_, _, _, _, _)
AllLanguages(langs, i, detected, prob, acc) ==
    IF i > Len(langs) THEN [exc |-> "none", val |-> acc]
    ELSE IF langs[i] = detected
    THEN AllLanguages(langs, i + 1, detected, prob,
                      Append(acc, [language |-> langs[i], confidence |-> prob]))
    ELSE IF Len(langs) - 1 = 0 THEN [exc |-> "ZeroDivisionError", val |-> acc]
    ELSE AllLanguages(langs, i + 1, detected, prob,
                      Append(acc, [language |-> langs[i],
                                   confidence |-> OtherConfidence(prob, Len(langs))]))

\* insert x behind the entries whose confidence is not lower than its own
RECURSIVE InsertByConfidence(_, _)
InsertByConfidence(sorted, x) ==
    IF sorted = <<>> THEN <<x>>
    ELSE IF RLess(Head(sorted).confidence, x.confidence) THEN <<x>> \o sorted
    ELSE <<Head(sorted)>> \o InsertByConfidence(Tail(sorted), x)

\* (mutant) all_languages left in the order of the loop
SortByConfidenceKeepsOrder(l) == l

\* all_languages.sort(key=lambda x: x['confidence'], reverse=True): stable
RECURSIVE SortByConfidence(_)
SortByConfidence(l) ==
    IF l = <<>> THEN <<>>
    ELSE InsertByConfidence(SortByConfidence(SubSeq(l, 1, Len(l) - 1)), l[Len(l)])

\* what self.model.transcribe can do for detect_language: raise, or return an
\* info with the language fields, or an info without them
ProbabilityValues == {<<0, 10>>, <<3, 10>>, <<5, 10>>, <<9, 10>>, <<10, 10>>}

DetectionOutcomes ==
    {[raises |-> TRUE, info |-> NoAttrs], [raises |-> FALSE, info |-> NoAttrs]}
    \cup {[raises |-> FALSE, info |-> [language |-> l, language_probability |-> pr]] :
            l \in {"sv", "en", "ja"}, pr \in ProbabilityValues}

\* lines 141-166: the result, all being what the loop over the languages gave
DetectResult(self, fs, tr, detection_languages, samples, d, all) ==
    IF all.exc /= "none" THEN Raise(all.exc, fs, tr)
    ELSE Return([detected_language |-> d.language,
                 language_confidence |-> d.probability,
                 all_languages |-> SortByConfidence(all.val),
                 supported_languages |-> detection_languages,
                 detection_duration |-> "elapsed",
                 audio_duration |-> <<samples, self.target_sample_rate>>],
                fs, tr)

\* lines 131-166, d being the detected language and its probability
DetectAfterModel(self, fs, tr, detection_languages, samples, d) ==
    DetectResult(self, fs, tr, detection_languages, samples, d,
                 AllLanguages(detection_languages, 1, d.language, d.probability, <<>>))

\* lines 116-166, audio being what _preprocess_audio gave
DetectAfterLoad(self, fs, tr, detection_languages, mo, audio) ==
    IF audio.exc /= "none" THEN Raise(audio.exc, fs, tr)
    ELSE IF mo.raises THEN Raise("ModelError", fs, Append(tr, Ev("model", audio.val)))
    ELSE DetectAfterModel(self, fs, Append(tr, Ev("model", audio.val)),
                          detection_languages, audio.val,
                          DetectedLanguage(self, mo.info, detection_languages))

\* the inner try of lines 112-166, after the temp file was written
DetectTry(self, fs, tr, temp_path, buf, detection_languages, mo) ==
    DetectAfterLoad(self, fs, Append(tr, Ev("load", temp_path)), detection_languages, mo,
                    _preprocess_audio(self, buf, <<10, 1>>))

\* the result dict of the except clause of detect_language
DetectError(self, supported, e) ==
    [detected_language |-> self.default_language,
     language_confidence |-> <<5, 10>>,
     all_languages |-> <<[language |-> self.default_language, confidence |-> <<5, 10>>]>>,
     supported_languages |-> supported,
     detection_duration |-> "elapsed",
     error |-> e]

\* f".{audio_format}"
AudioSuffix(audio_format) ==
    CASE audio_format = "wav"  -> ".wav"
      [] audio_format = "webm" -> ".webm"
      [] OTHER                 -> ".mp3"

\* (mutant) no except clause: what the inner try raised goes on to the caller
DetectReturnReraises(self, detection_languages, r) == r

\* lines 166-182: what the inner try handed on, r, returned or turned into the
\* error result
DetectReturn(self, detection_languages, r) ==
    IF r.exc /= "none"
    THEN Return(DetectError(self, detection_languages, r.exc), r.files, r.trace)
    ELSE r

\* lines 107-171: the temp file written, used and unlinked
DetectInTemp(self, fs, temp_path, buf, detection_languages, mo) ==
    UnlinkIfExists(
        DetectTry(self, WriteFile(fs, temp_path, "audio"), <<Ev("mktemp", temp_path)>>,
                  temp_path, buf, detection_languages, mo),
        temp_path)

\* detect_language(audio_buffer, audio_format, supported_languages)
detect_language(self, fs, buf, audio_format, supported_languages, mo) ==
    IF BufferInvalid(buf)
    THEN Return(DetectError(self, self.supported_languages, "ValueError"), fs, <<>>)
    ELSE DetectReturn(self, DetectionLanguages(self, supported_languages),
             DetectInTemp(self, fs, MkTemp(fs, AudioSuffix(audio_format)), buf,
                          DetectionLanguages(self, supported_languages), mo))

AudioFormats == {"wav", "webm"}

SupportedLanguageLists ==
    {<<>>, <<"sv">>, <<"en">>, <<"en", "da">>, <<"ja", "xx">>, <<"de", "sv", "en">>,
     <<"sv", "sv", "en">>}

\* whether a call on buf gets as far as self.model.transcribe
ReachesModel(buf) == ~BufferInvalid(buf) /\ buf.samples > 0

DetectLanguage(buf, audio_format, supported_languages) ==
    /\ sttStatus = "ok"
    /\ Idle
    /\ \E mo \in (IF ReachesModel(buf) THEN DetectionOutcomes
                  ELSE {[raises |-> TRUE, info |-> NoAttrs]}) :
         Returns([op |-> "detect_language", audio_buffer |-> buf,
                  audio_format |-> audio_format,
                  supported_languages |-> supported_languages, model |-> mo],
                 detect_language(stt, files, buf, audio_format, supported_languages, mo))
    /\ UNCHANGED <<engines, tts, ttsStatus, probed, stt, sttStatus>>

----------------------------------------------------------------------------
(* WhisperXProcessor._clean_transcription and _assess_transcription_quality *)

LowerLetters == <<"a", "b", "c", "d", "e", "f", "g", "h", "i", "j", "k", "l", "m", "n",
                  "o", "p", "q", "r", "s", "t", "u", "v", "w", "x", "y", "z", "å", "ä", "ö">>
UpperLetters == <<"A", "B", "C", "D", "E", "F", "G", "H", "I", "J", "K", "L", "M", "N",
                  "O", "P", "Q", "R", "S", "T", "U", "V", "W", "X", "Y", "Z", "Å", "Ä", "Ö">>

UpperOf == [c \in {LowerLetters[i] : i \in 1..Len(LowerLetters)} |->
                UpperLetters[CHOOSE i \in 1..Len(LowerLetters) : LowerLetters[i] = c]]

LowerOf == [c \in {UpperLetters[i] : i \in 1..Len(UpperLetters)} |->
                LowerLetters[CHOOSE i \in 1..Len(UpperLetters) : UpperLetters[i] = c]]

\* c.isupper(), c.upper() and c.lower() of one character
IsUpper(c) == c \in DOMAIN LowerOf

Upper(c) == IF c \in DOMAIN UpperOf THEN UpperOf[c] ELSE c

Lower(c) == IF c \in DOMAIN LowerOf THEN LowerOf[c] ELSE c

\* s.lower()
LowerText(s) == SubSeq([i \in 1..Len(s) |-> Lower(s[i])], 1, Len(s))

\* " ".join(s.split()), built from the front; word is the run being read
RECURSIVE JoinSplit(_, _, _)
JoinSplit(s, word, acc) ==
    IF s = <<>>
    THEN (IF word = <<>> THEN acc
          ELSE IF acc = <<>> THEN word ELSE acc \o <<" ">> \o word)
    ELSE IF Head(s) \in Whitespace
    THEN JoinSplit(Tail(s), <<>>,
                   IF word = <<>> THEN acc
                   ELSE IF acc = <<>> THEN word ELSE acc \o <<" ">> \o word)
    ELSE JoinSplit(Tail(s), Append(word, Head(s)), acc)

\* lines 376-378
Capitalized(text) ==
    IF text /= <<>> /\ ~IsUpper(text[1]) THEN <<Upper(text[1])>> \o Tail(text) ELSE text

\* lines 380-382
Ended(text) ==
    IF text /= <<>> /\ text[Len(text)] \notin {".", "!", "?"} THEN Append(text, ".") ELSE text

_clean_transcription(text) ==
    IF text = <<>> THEN <<>> ELSE Ended(Capitalized(Strip(JoinSplit(text, <<>>, <<>>))))

swedish_indicators == <<
    <<"ä", "r">>, <<"o", "c", "h">>, <<"a", "t", "t">>, <<"j", "a", "g">>,
    <<"d", "e", "t">>, <<"s", "o", "m">>, <<"e", "n">>, <<"p", "å">>,
    <<"m", "e", "d">>, <<"f", "ö", "r">> >>

\* sum(1 for word in swedish_indicators if word in lowered)
SwedishCount(lowered) ==
    Cardinality({i \in 1..Len(swedish_indicators) : Contains(lowered, swedish_indicators[i])})

\* max(1, audio_size // 10000)
ExpectedWords(audio_size) ==
    IF audio_size \div 10000 > 1 THEN audio_size \div 10000 ELSE 1

\* lines 406-409: word_count < expected_words * 0.3
LengthPenalty(q, word_count, audio_size) ==
    IF 10 * word_count < 3 * ExpectedWords(audio_size) THEN RMul(q, <<7, 10>>) ELSE q

\* lines 411-413
LengthBonus(q, word_count) ==
    IF 5 <= word_count /\ word_count <= 100 THEN RMul(q, <<11, 10>>) ELSE q

\* lines 415-419
SwedishBonus(q, swedish_count) ==
    IF swedish_count > 0 THEN RMul(q, <<100 + 2 * swedish_count, 100>>) ELSE q

\* the score before the final min(1.0, quality_score)
RawQuality(text, confidence, audio_size, word_count) ==
    SwedishBonus(LengthBonus(LengthPenalty(confidence, word_count, audio_size), word_count),
                 SwedishCount(LowerText(text)))

\* (mutant) a score returned without the final min(1.0, ...)
_assess_transcription_quality_unclamped(text, confidence, audio_size) ==
    IF text = <<>> THEN <<0, 1>>
    ELSE RawQuality(text, confidence, audio_size, WordCount(text))

_assess_transcription_quality(text, confidence, audio_size) ==
    IF text = <<>> THEN <<0, 1>>
    ELSE RMin(<<1, 1>>, RawQuality(text, confidence, audio_size, WordCount(text)))

----------------------------------------------------------------------------
(* WhisperXProcessor.transcribe_buffer *)

\* min(1.0, max(0.0, np.exp(segment.avg_logprob))), the segment carrying the
\* value of np.exp(avg_logprob)
SegmentConfidence(segment) == RMin(<<1, 1>>, RMax(<<0, 1>>, segment.exp_avg_logprob))

\* the loop of lines 233-239 from segment i on
RECURSIVE SegmentLoop(_, _, _, _, _)
SegmentLoop(segments, i, transcription_text, total_confidence, segment_count) ==
    IF i > Len(segments)
    THEN [text |-> transcription_text, total |-> total_confidence, count |-> segment_count]
    ELSE IF HasAttr(segments[i], "exp_avg_logprob")
    THEN SegmentLoop(segments, i + 1, transcription_text \o segments[i].text,
                     RAdd(total_confidence, SegmentConfidence(segments[i])),
                     segment_count + 1)
    ELSE SegmentLoop(segments, i + 1, transcription_text \o segments[i].text,
                     total_confidence, segment_count)

\* total_confidence / segment_count if segment_count > 0 else 0.0
AvgConfidence(total_confidence, segment_count) ==
    IF segment_count > 0
    THEN <<total_confidence[1], total_confidence[2] * segment_count>> ELSE <<0, 1>>

\* lines 254-269: the result dict; its "language" reads self.language when
\* the info has no language
TranscribeResult(self, fs, tr, info, text, confidence, segment_count, audio_size, samples) ==
    IF ~HasAttr(info, "language") /\ ~HasAttr(self, "language")
    THEN Raise("AttributeError", fs, tr)
    ELSE Return([text |-> text,
                 language |-> IF HasAttr(info, "language") THEN info.language
                              ELSE self.language,
                 confidence |-> confidence,
                 quality_score |-> _assess_transcription_quality(text, confidence, audio_size),
                 duration |-> "elapsed",
                 audio_duration |-> <<samples, self.target_sample_rate>>,
                 detected_language_probability |->
                     IF HasAttr(info, "language_probability")
                     THEN info.language_probability ELSE <<1, 1>>,
                 model_used |-> self.model_size,
                 segments_count |-> segment_count],
                fs, tr)

\* lines 228-269, loop being what the loop over the segments gave
TranscribeAfterLoop(self, fs, tr, info, loop, audio_size, samples) ==
    TranscribeResult(self, fs, tr, info, _clean_transcription(loop.text),
                     AvgConfidence(loop.total, loop.count), loop.count, audio_size, samples)

\* lines 213-269, audio being what _preprocess_audio gave
TranscribeAfterLoad(self, fs, tr, buf, mo, audio) ==
    IF audio.exc /= "none" THEN Raise(audio.exc, fs, tr)
    ELSE IF mo.raises THEN Raise("ModelError", fs, Append(tr, Ev("model", audio.val)))
    ELSE TranscribeAfterLoop(self, fs, Append(tr, Ev("model", audio.val)), mo.info,
                             SegmentLoop(mo.segments, 1, <<>>, <<0, 1>>, 0),
                             buf.size, audio.val)

\* the inner try of lines 209-269, after the temp file was written
TranscribeTry(self, fs, tr, temp_path, buf, mo) ==
    TranscribeAfterLoad(self, fs, Append(tr, Ev("load", temp_path)), buf, mo,
                        _preprocess_audio(self, buf, <<0, 1>>))

\* the except clause of lines 276-286: its dict reads self.language
TranscribeExcept(self, e, fs, tr) ==
    IF ~HasAttr(self, "language") THEN Raise("AttributeError", fs, tr)
    ELSE Return([text |-> <<>>,
                 language |-> self.language,
                 confidence |-> <<0, 1>>,
                 quality_score |-> <<0, 1>>,
                 duration |-> "elapsed",
                 error |-> e,
                 model_used |-> self.model_size],
                fs, tr)

\* lines 269-286: what the inner try handed on, r, returned or handled
TranscribeReturn(self, r) ==
    IF r.exc /= "none" THEN TranscribeExcept(self, r.exc, r.files, r.trace) ELSE r

\* (mutant) the unlink after the try instead of in a finally clause
TranscribeInTempNoFinally(self, fs, temp_path, buf, mo) ==
    IF TranscribeTry(self, WriteFile(fs, temp_path, "audio"), <<Ev("mktemp", temp_path)>>,
                     temp_path, buf, mo).exc /= "none"
    THEN TranscribeTry(self, WriteFile(fs, temp_path, "audio"), <<Ev("mktemp", temp_path)>>,
                       temp_path, buf, mo)
    ELSE UnlinkIfExists(
             TranscribeTry(self, WriteFile(fs, temp_path, "audio"),
                           <<Ev("mktemp", temp_path)>>, temp_path, buf, mo),
             temp_path)

\* lines 204-274: the temp file written, used and unlinked
TranscribeInTemp(self, fs, temp_path, buf, mo) ==
    UnlinkIfExists(
        TranscribeTry(self, WriteFile(fs, temp_path, "audio"), <<Ev("mktemp", temp_path)>>,
                      temp_path, buf, mo),
        temp_path)

\* transcribe_buffer(audio_buffer, audio_format, target_language)
transcribe_buffer(self, fs, buf, audio_format, target_language, mo) ==
    IF BufferInvalid(buf) THEN TranscribeExcept(self, "ValueError", fs, <<>>)
    ELSE TranscribeReturn(self,
             TranscribeInTemp(self, fs, MkTemp(fs, AudioSuffix(audio_format)), buf, mo))

\* the segments self.model.transcribe yields: none; one; two, the second with
\* np.exp(avg_logprob) above 1; one of whitespace without avg_logprob
SegmentLists == {
    <<>>,
    <<[text |-> <<" ", "h", "e", "j">>, exp_avg_logprob |-> <<1, 2>>]>>,
    <<[text |-> <<" ", "d", "e", "t", " ", "ä", "r", " ", "e", "n">>,
       exp_avg_logprob |-> <<9, 10>>],
      [text |-> <<" ", "b", "r", "a", " ", "d", "a", "g", " ", " ", "n", "u", "!">>,
       exp_avg_logprob |-> <<3, 2>>]>>,
    <<[text |-> <<" ", " ">>]>> }

\* what self.model.transcribe can do for transcribe_buffer
TranscriptionOutcomes ==
    {[raises |-> TRUE, segments |-> <<>>, info |-> NoAttrs]}
    \cup {[raises |-> FALSE, segments |-> sg, info |-> i] :
            sg \in SegmentLists,
            i \in {NoAttrs, [language |-> "sv", language_probability |-> <<9, 10>>]}}

\* a caller's None is the empty string, which is falsy as well
TargetLanguages == {"", "en"}

TranscribeBuffer(buf, audio_format, target_language) ==
    /\ sttStatus = "ok"
    /\ Idle
    /\ \E mo \in (IF ReachesModel(buf) THEN TranscriptionOutcomes
                  ELSE {[raises |-> TRUE, segments |-> <<>>, info |-> NoAttrs]}) :
         Returns([op |-> "transcribe_buffer", audio_buffer |-> buf,
                  audio_format |-> audio_format,
                  target_language |-> target_language, model |-> mo],
                 transcribe_buffer(stt, files, buf, audio_format, target_language, mo))
    /\ UNCHANGED <<engines, tts, ttsStatus, probed, stt, sttStatus>>

----------------------------------------------------------------------------
(* _assess_transcription_quality on its own *)

\* the longest text scored, in words
MaxWords == 101

\* n times the word, with single spaces between
Repeated(word, n) ==
    IF n = 0 THEN <<>>
    ELSE SubSeq([i \in 1..(n * (Len(word) + 1) - 1) |->
                    IF i % (Len(word) + 1) = 0 THEN " " ELSE word[i % (Len(word) + 1)]],
                1, n * (Len(word) + 1) - 1)

QualityWords == {<<"j", "a">>, <<"M", "e", "n">>, <<"o", "c", "h", "a", "t", "t">>}

QualityWordCounts == {0, 1, 4, 5, 100, MaxWords}

QualityConfidences == {<<k, 10>> : k \in 0..10}

QualityAudioSizes == {0, 1024, 170000, 3900000}

AssessQuality(word, n, confidence, audio_size) ==
    /\ Idle
    /\ call' = [op |-> "_assess_transcription_quality",
                text |-> Repeated(word, n), confidence |-> confidence,
                audio_size |-> audio_size,
                result |-> _assess_transcription_quality(Repeated(word, n), confidence,
                                                         audio_size)]
    /\ UNCHANGED <<engines, tts, ttsStatus, probed, stt, sttStatus, files>>

----------------------------------------------------------------------------
(* Claims about the construction of a TTSProcessor *)

\* the providers of _initialize_provider, in fallback order, and their binaries
ProviderOrder == <<"piper", "espeak", "system">>
BinaryOrder == <<"piper", "espeak", "say">>

Supported == {ProviderOrder[i] : i \in 1..3}

IndexOf(provider) == CHOOSE i \in 1..3 : ProviderOrder[i] = provider

Constructed == call.op = "__init__"

\* C1: with a supported provider requested and at least one of the three
\* engines passing its probe, construction succeeds and the selected provider
\* is an engine whose probe passed.
C1_SomeInstalledEngineIsUsed ==
    (/\ Constructed
     /\ call.provider \in Supported
     /\ \E b \in Binaries : engines[b] = "ok")
    => /\ ttsStatus = "ok"
       /\ engines[BinaryOrder[IndexOf(tts.provider)]] = "ok"

\* C2: the engines are probed one at a time in the order piper, espeak, system
\* starting at the requested provider; every probe but the last failed; a
\* passed probe is the last one and its engine is self.provider; no engine
\* before the requested one is probed or selected.
C2_FallbackOrder ==
    (Constructed /\ call.provider \in Supported) =>
        LET k == IndexOf(call.provider)
            n == Len(probed)
        IN  /\ n >= 1
            /\ k + n - 1 <= 3
            /\ \A i \in 1..n : probed[i] = BinaryOrder[k + i - 1]
            /\ \A i \in 1..(n - 1) : engines[probed[i]] /= "ok"
            /\ ttsStatus = "ok" =>
                  /\ engines[probed[n]] = "ok"
                  /\ tts.provider = ProviderOrder[k + n - 1]
            /\ ttsStatus /= "ok" =>
                  /\ engines[probed[n]] /= "ok"
                  /\ k + n - 1 = 3

\* a construction that fell back from piper and stopped at espeak
C2_Witness ==
    /\ Constructed
    /\ call.provider = "piper"
    /\ probed = <<"piper", "espeak">>
    /\ engines["say"] = "ok"
    /\ ttsStatus = "ok"
    /\ tts.provider = "espeak"

\* C10: an unsupported provider name raises ValueError before any probe; a
\* supported one raises RuntimeError exactly when every engine from the
\* requested one to the end of the order fails its probe; otherwise
\* construction succeeds.
C10_ConstructionFailures ==
    Constructed =>
        /\ call.provider \notin Supported => (ttsStatus = "ValueError" /\ probed = <<>>)
        /\ call.provider \in Supported =>
              /\ ttsStatus \in {"ok", "RuntimeError"}
              /\ ttsStatus = "RuntimeError" <=>
                    \A i \in IndexOf(call.provider)..3 : engines[BinaryOrder[i]] /= "ok"

\* espeak requested, espeak and say exit non-zero, piper installed: RuntimeError
C10_Witness ==
    /\ Constructed
    /\ call.provider = "espeak"
    /\ engines = [b \in Binaries |-> IF b = "piper" THEN "ok" ELSE "nonzero"]
    /\ ttsStatus = "RuntimeError"

----------------------------------------------------------------------------
(* Claims about synthesize *)

Synthesized == call.op = "synthesize"

\* the calls the claim counts as failures: a blank text, or an engine that
\* exits non-zero, times out or leaves no output file
SynthesisFails ==
    Strip(call.text) = <<>> \/ call.engine \in {"nonzero", "timeout", "nofile"}

\* C3: synthesize never raises; a failed call returns audio_data b"", an error
\* message, the caller's text unmodified and the current provider; a
\* successful call returns no error, the prepared text and the requested format.
C3_SynthesizeContract ==
    Synthesized =>
        /\ call.exc = "none"
        /\ SynthesisFails =>
              /\ "error" \in DOMAIN call.result
              /\ call.result.audio_data = EmptyBytes
              /\ call.result.text = call.text
              /\ call.result.provider = tts.provider
        /\ ~SynthesisFails =>
              /\ "error" \notin DOMAIN call.result
              /\ "audio_data" \in DOMAIN call.result
              /\ call.result.text = _prepare_text_for_swedish(Strip(call.text))
              /\ call.result.format = call.output_format

\* a successful call on a text with surrounding whitespace and an abbreviation
C3_Witness ==
    /\ Synthesized
    /\ call.text = <<" ", "5", " ", "k", "r", " ">>
    /\ call.engine = "ok"
    /\ call.result.text = <<"5", " ", "k", "r", "o", "n", "o", "r", ".">>

\* C7: when synthesize returns, no temp file created during the call still
\* exists, the .wav file written by ffmpeg included.
C7_NoTempFileSurvives ==
    Synthesized => \A p \in Created(call.trace) : ~Exists(files, p)

\* the binary of the provider selected at construction: the last one probed
SelectedBinary == probed[Len(probed)]

\* the engines a call ran (ffmpeg is a converter, not an engine)
EnginesInvoked == {Ran(call.trace)[i] : i \in 1..Len(Ran(call.trace))} \cap Binaries

\* C11 (state part): a synthesize call runs no engine but the one selected at
\* construction, also after that engine failed, and the provider field of a
\* synthesize or get_status result is the provider selected at construction.
C11_OnlySelectedEngine ==
    /\ Synthesized =>
          /\ EnginesInvoked \subseteq {SelectedBinary}
          /\ SelectedBinary = BinaryOrder[IndexOf(tts.provider)]
          /\ call.result.provider = tts.provider
    /\ call.op = "get_status" =>
          /\ call.result.provider = tts.provider
          /\ SelectedBinary = BinaryOrder[IndexOf(tts.provider)]

\* C11 (frame part): a step that is a synthesize or get_status call leaves
\* self.provider, voice, sample_rate and channels as they were.
C11_AttributesUnchanged ==
    (call'.op \in {"synthesize", "get_status"}) =>
        /\ tts'.provider = tts.provider
        /\ tts'.voice = tts.voice
        /\ tts'.sample_rate = tts.sample_rate
        /\ tts'.channels = tts.channels

\* C11: fallback happens only at construction: across synthesize and
\* get_status calls provider, voice, sample_rate and channels are unchanged,
\* a synthesize call invokes only the engine selected at construction, and
\* the provider of every result is the provider selected at construction.
C11_FallbackOnlyAtConstruction ==
    []C11_OnlySelectedEngine /\ [][C11_AttributesUnchanged]_vars

\* piper was selected, its synthesis failed with espeak installed, and piper
\* is the only engine the call ran
C11_Witness ==
    /\ Synthesized
    /\ tts.provider = "piper"
    /\ engines["espeak"] = "ok"
    /\ call.engine = "nonzero"
    /\ Ran(call.trace) = <<"piper">>
    /\ call.result.provider = "piper"

\* C12: for an empty or all-whitespace text synthesize returns the error
\* result with error 'Text is empty', having created no temp file and run no
\* external process.
C12_ValidationBeforeEffects ==
    (Synthesized /\ Strip(call.text) = <<>>) =>
        /\ call.exc = "none"
        /\ "error" \in DOMAIN call.result
        /\ call.result.error = "Text is empty"
        /\ call.result.audio_data = EmptyBytes
        /\ Created(call.trace) = {}
        /\ Ran(call.trace) = <<>>
        /\ call.trace = <<>>

\* a text of whitespace only was rejected
C12_Witness ==
    /\ Synthesized
    /\ call.text = <<" ", "\n">>
    /\ call.result.error = "Text is empty"
    /\ call.trace = <<>>

----------------------------------------------------------------------------
(* Claims about the WhisperXProcessor *)

Transcribed == call.op = "transcribe_buffer"
Detected == call.op = "detect_language"

\* the failures of a call before its result is built: the buffer is rejected,
\* preprocessing raises (undecodable or empty audio), or the model raises
InputFails ==
    \/ BufferInvalid(call.audio_buffer)
    \/ call.audio_buffer.samples <= 0
    \/ call.model.raises

\* C4: transcribe_buffer never raises; on every failure it returns the error
\* dict: text "", confidence 0.0, quality_score 0.0, language, model_used, error.
C4_TranscribeNeverRaises ==
    Transcribed =>
        /\ call.exc = "none"
        /\ InputFails =>
              /\ {"language", "model_used", "error"} \subseteq DOMAIN call.result
              /\ call.result.text = <<>>
              /\ REq(call.result.confidence, <<0, 1>>)
              /\ REq(call.result.quality_score, <<0, 1>>)

\* the language the model reported, the default one when its info has none
ReportedLanguage ==
    IF HasAttr(call.model.info, "language") THEN call.model.info.language
    ELSE stt.default_language

\* the failure while the alternatives are built: one language is considered,
\* and it is neither the reported nor the default language
ArithmeticFails ==
    LET considered == DetectionLanguages(stt, call.supported_languages) IN
    /\ Len(considered) = 1
    /\ ReportedLanguage /= considered[1]
    /\ stt.default_language /= considered[1]

\* C5: detect_language never raises; on every failure it returns the default
\* language with confidence 0.5, all_languages holding that one entry, and
\* an error message.
C5_DetectNeverRaises ==
    Detected =>
        /\ call.exc = "none"
        /\ (InputFails \/ ArithmeticFails) =>
              /\ "error" \in DOMAIN call.result
              /\ call.result.detected_language = stt.default_language
              /\ REq(call.result.language_confidence, <<1, 2>>)
              /\ Len(call.result.all_languages) = 1
              /\ call.result.all_languages[1].language = stt.default_language
              /\ REq(call.result.all_languages[1].confidence, <<1, 2>>)

\* the division by len(detection_languages) - 1 = 0 ends in the error result
C5_Witness ==
    /\ Detected
    /\ ~InputFails
    /\ ArithmeticFails
    /\ call.result.error = "ZeroDivisionError"

\* the events of a trace with their positions
Positions(tr, kinds) == {i \in 1..Len(tr) : tr[i].ev \in kinds}

\* C8: in transcribe_buffer and detect_language a rejected buffer creates no
\* temp file and causes no model call; a temp file is created before the
\* audio is loaded and the model called, and it is deleted when the call
\* ends, also when preprocessing or the model raised.
C8_TempFileBookkeeping ==
    (Transcribed \/ Detected) =>
        /\ BufferInvalid(call.audio_buffer) => call.trace = <<>>
        /\ ~BufferInvalid(call.audio_buffer) => call.trace[1].ev = "mktemp"
        /\ \A i \in Positions(call.trace, {"load", "model"}) :
              /\ \E j \in Positions(call.trace, {"mktemp"}) : j < i
              /\ \E j \in Positions(call.trace, {"unlink"}) : i < j
        /\ \A p \in Created(call.trace) :
              /\ ~Exists(files, p)
              /\ call.trace[Len(call.trace)] = Ev("unlink", p)

\* a call whose model raised after the temp file was written
C8_Witness ==
    /\ Transcribed
    /\ ~BufferInvalid(call.audio_buffer)
    /\ call.audio_buffer.samples > 0
    /\ call.model.raises
    /\ Created(call.trace) /= {}
    /\ \E i \in 1..Len(call.trace) : call.trace[i].ev = "model"

\* C9: in every result of detect_language, detected_language is a member of
\* the result's supported_languages.
C9_DetectedLanguageIsConsidered ==
    Detected =>
        InList(call.result.detected_language, call.result.supported_languages)

\* a detect_language call that returned its result, not the error dict
DetectSucceeded == Detected /\ call.exc = "none" /\ "error" \notin DOMAIN call.result

\* how often language l occurs in a list of codes, and in a list of entries
TimesListed(l, langs) == Cardinality({i \in 1..Len(langs) : langs[i] = l})
TimesEntered(l, all) == Cardinality({i \in 1..Len(all) : all[i].language = l})

\* entries ordered by non-increasing confidence
NonIncreasing(all) ==
    \A i \in 1..(Len(all) - 1) : RLeq(all[i + 1].confidence, all[i].confidence)

\* C13 (as stated): in every successful detect_language result all_languages
\* has exactly one entry for each language of the result's
\* supported_languages and no other entry, ordered by non-increasing
\* confidence.
C13_OneEntryPerLanguage ==
    DetectSucceeded =>
        /\ \A i \in 1..Len(call.result.supported_languages) :
              TimesEntered(call.result.supported_languages[i],
                           call.result.all_languages) = 1
        /\ \A i \in 1..Len(call.result.all_languages) :
              InList(call.result.all_languages[i].language,
                     call.result.supported_languages)
        /\ NonIncreasing(call.result.all_languages)

\* C13 (amended): in every successful detect_language result all_languages
\* has exactly one entry for each element of the result's
\* supported_languages, so that a code listed twice is entered twice, and no
\* other entry, ordered by non-increasing confidence.
C13_OneEntryPerListElement ==
    DetectSucceeded =>
        /\ Len(call.result.all_languages) = Len(call.result.supported_languages)
        /\ \A i \in 1..Len(call.result.supported_languages) :
              TimesEntered(call.result.supported_languages[i],
                           call.result.all_languages)
              = TimesListed(call.result.supported_languages[i],
                            call.result.supported_languages)
        /\ \A i \in 1..Len(call.result.all_languages) :
              InList(call.result.all_languages[i].language,
                     call.result.supported_languages)
        /\ NonIncreasing(call.result.all_languages)

\* a list with a repeated code, whose last language was detected and sorted
\* to the front
C13_Witness ==
    /\ DetectSucceeded
    /\ call.result.supported_languages = <<"sv", "sv", "en">>
    /\ call.result.detected_language = "en"
    /\ Len(call.result.all_languages) = 3
    /\ call.result.all_languages[1].language = "en"
    /\ call.result.all_languages[2].language = "sv"
    /\ call.result.all_languages[3].language = "sv"

\* C14: in a successful detect_language result every language other than the
\* detected one has a confidence lower than language_confidence, whatever
\* probability the model reported and however many languages are considered.
C14_OthersBelowDetected ==
    DetectSucceeded =>
        \A i \in 1..Len(call.result.all_languages) :
            call.result.all_languages[i].language /= call.result.detected_language
            => RLess(call.result.all_languages[i].confidence,
                     call.result.language_confidence)

\* the samples the model was given in a call, as the trace recorded them
SamplesGiven == {call.trace[i].arg : i \in Positions(call.trace, {"model"})}

\* a transcribe_buffer call that returned its result, not the error dict
TranscribeSucceeded == Transcribed /\ call.exc = "none" /\ "error" \notin DOMAIN call.result

\* the most samples a handler lets through: 10 s for detect_language, the
\* default 120 s for transcribe_buffer, at 16 kHz
MostSamples == IF Detected THEN 10 * stt.target_sample_rate
               ELSE 120 * stt.target_sample_rate

\* C15: _preprocess_audio hands on at most max_dur * sample_rate samples,
\* max_dur being 10 s in detect_language and the default 120 s in
\* transcribe_buffer, so that a successful result has audio_duration <= 10 s
\* or <= 120 s; audio shorter than the 0.5 s minimum is handed on with its
\* length unchanged.
C15_PreprocessingBounds ==
    (Transcribed \/ Detected) =>
        /\ \A n \in SamplesGiven :
              /\ n <= MostSamples
              /\ n <= call.audio_buffer.samples
              /\ call.audio_buffer.samples <= MostSamples => n = call.audio_buffer.samples
              /\ RLess(<<call.audio_buffer.samples, stt.target_sample_rate>>, <<1, 2>>)
                    => n = call.audio_buffer.samples
        /\ DetectSucceeded =>
              /\ RLeq(call.result.audio_duration, <<10, 1>>)
              /\ \A n \in SamplesGiven :
                    call.result.audio_duration = <<n, stt.target_sample_rate>>
        /\ TranscribeSucceeded =>
              /\ RLeq(call.result.audio_duration, <<120, 1>>)
              /\ \A n \in SamplesGiven :
                    call.result.audio_duration = <<n, stt.target_sample_rate>>

\* audio of 160001 samples was cut to the 10 s of a language detection
C15_Witness ==
    /\ DetectSucceeded
    /\ call.audio_buffer.samples = 160001
    /\ SamplesGiven = {160000}
    /\ call.result.audio_duration = <<160000, 16000>>

----------------------------------------------------------------------------
(* Claims about _assess_transcription_quality *)

Assessed == call.op = "_assess_transcription_quality"

\* C6: for every text, confidence in [0, 1] and audio size the score is in
\* [0, 1], and it is 0.0 for the empty text.
C6_QualityInRange ==
    Assessed =>
        /\ RLeq(<<0, 1>>, call.result)
        /\ RLeq(call.result, <<1, 1>>)
        /\ call.text = <<>> => call.result = <<0, 1>>

\* a text whose score before the final min is above 1
C6_Witness ==
    /\ Assessed
    /\ call.text /= <<>>
    /\ RLess(<<1, 1>>, RawQuality(call.text, call.confidence, call.audio_size,
                                  WordCount(call.text)))
    /\ REq(call.result, <<1, 1>>)

----------------------------------------------------------------------------
(* Specifications *)

\* before any constructor has run, on a machine whose probes behave as in O
InitWith(O) ==
    /\ engines \in [Binaries -> O]
    /\ tts = NoAttrs
    /\ ttsStatus = "none"
    /\ probed = <<>>
    /\ stt = NoAttrs
    /\ sttStatus = "none"
    /\ files = NoAttrs
    /\ call = NoCall

(* The life of a TTSProcessor, for every outcome of every probe *)
Init == InitWith(ProbeOutcomes)

Next ==
    \/ \E p \in RequestedProviders, v \in Voices : TTSInit(p, v)
    \/ \E t \in Texts, f \in Formats : Synthesize(t, f)
    \/ GetStatus
    \/ ResultTaken

Spec == Init /\ [][Next]_vars

(* The life of a WhisperXProcessor *)
NextSTT ==
    \/ \E l \in DefaultLanguages : STTInit(l)
    \/ \E b \in AudioBuffers, f \in AudioFormats, sl \in SupportedLanguageLists :
          DetectLanguage(b, f, sl)
    \/ \E b \in AudioBuffers, f \in AudioFormats, tl \in TargetLanguages :
          TranscribeBuffer(b, f, tl)
    \/ ResultTaken

SpecSTT == InitWith({"ok"}) /\ [][NextSTT]_vars

(* The quality score of every text, confidence and audio size of the model *)
NextQuality ==
    \/ \E w \in QualityWords, n \in QualityWordCounts,
          c \in QualityConfidences, a \in QualityAudioSizes : AssessQuality(w, n, c, a)
    \/ ResultTaken

SpecQuality == InitWith({"ok"}) /\ [][NextQuality]_vars

====
